---- MODULE Spec2Model ----
(***************************************************************************)
(* The ten MCP tools of src/main.py (solana-api): each builds a URL from   *)
(* its arguments, optionally attaches the Solscan API key, opens an        *)
(* httpx.AsyncClient, awaits one GET, raises for a non-success status,     *)
(* decodes the body as JSON and returns it.                                *)
(*                                                                         *)
(* Text is modelled as a sequence of tokens: the words of the URL          *)
(* templates are one token each, every separator ("/", "?", "&", "=",      *)
(* "#", ",") and every character of a caller-supplied argument is a token  *)
(* of its own, so that the URL a tool builds can be taken apart again the  *)
(* way the HTTP client takes it apart.                                     *)
(***************************************************************************)
EXTENDS Integers, Sequences, FiniteSets, TLC

VARIABLES environ, pc, call, headers, clients, client, request, sent,
          response, retval, exc

vars == <<environ, pc, call, headers, clients, client, request, sent,
          response, retval, exc>>

\* ------------------------------------------------------------------ bounds

\* Number of tool calls that may be in flight together.
NCalls == 2

\* Longest caller-supplied text argument, in characters.
MaxLen == 2

\* Longest list of ids given to jupiter_price.
MaxIds == 2

AllCalls == 1..NCalls

\* --------------------------------------------------------- text helpers

RECURSIVE Join(_, _)
\* sep.join(parts) of Python, on token sequences.
Join(parts, sep) ==
    IF parts = <<>> THEN <<>>
    ELSE IF Len(parts) = 1 THEN Head(parts)
    ELSE Head(parts) \o sep \o Join(Tail(parts), sep)

Digit(d) == CASE d = 0 -> "0" [] d = 1 -> "1" [] d = 2 -> "2" [] d = 3 -> "3"
              [] d = 4 -> "4" [] d = 5 -> "5" [] d = 6 -> "6" [] d = 7 -> "7"
              [] d = 8 -> "8" [] d = 9 -> "9"

RECURSIVE NatToStr(_)
NatToStr(n) == IF n < 10 THEN <<Digit(n)>>
               ELSE NatToStr(n \div 10) \o <<Digit(n % 10)>>

\* str(n) of an int, as an f-string formats {limit} and {offset}.
IntToStr(n) == IF n < 0 THEN <<"-">> \o NatToStr(0 - n) ELSE NatToStr(n)

\* The index of the first token of s that is in the set stop, Len(s)+1 if none.
RECURSIVE FirstIn(_, _, _)
FirstIn(s, stop, i) ==
    IF i > Len(s) THEN Len(s) + 1
    ELSE IF s[i] \in stop THEN i
    ELSE FirstIn(s, stop, i + 1)

\* s split at every token equal to sep (the separators dropped).
RECURSIVE Split(_, _)
Split(s, sep) ==
    LET i == FirstIn(s, {sep}, 1)
    IN  IF i > Len(s) THEN <<s>>
        ELSE <<SubSeq(s, 1, i - 1)>> \o Split(SubSeq(s, i + 1, Len(s)), sep)

Contains(s, ch) == \E i \in 1..Len(s) : s[i] = ch

\* ------------------------------------------------------------- the URL

\* How the HTTP client reads a URL string: scheme "://" authority path
\* "?" query "#" fragment.  Only authority, path and query reach the server.
UrlRest(url) == SubSeq(url, 4, Len(url))

UrlHost(url) ==
    LET r == UrlRest(url)
    IN  SubSeq(r, 1, FirstIn(r, {"/", "?", "#"}, 1) - 1)

UrlPath(url) ==
    LET r == UrlRest(url)
        a == FirstIn(r, {"/", "?", "#"}, 1)
        b == FirstIn(r, {"?", "#"}, 1)
    IN  SubSeq(r, a, b - 1)

UrlQuery(url) ==
    LET r == UrlRest(url)
        q == FirstIn(r, {"?", "#"}, 1)
        f == FirstIn(r, {"#"}, 1)
    IN  IF q <= Len(r) /\ r[q] = "?" THEN SubSeq(r, q + 1, f - 1) ELSE <<>>

\* One "key=value" item of a query as the pair <<key, value>>.
QueryItem(item) ==
    LET e == FirstIn(item, {"="}, 1)
    IN  <<SubSeq(item, 1, e - 1), SubSeq(item, e + 1, Len(item))>>

\* The parameters of a query string, in order; an empty query has none.
QueryPairs(q) ==
    IF q = <<>> THEN <<>>
    ELSE LET items == Split(q, "&")
         IN  [i \in 1..Len(items) |-> QueryItem(items[i])]

\* The segments of a path ("/a/b" has two).
PathSegments(p) == IF p = <<>> THEN <<>> ELSE Tail(Split(p, "/"))

\* ------------------------------------------------------ the environment

\* os.environ as far as the tools read it: SOLSCAN_API_KEY is unset, set to
\* the empty string, or set to a key.  load_dotenv() fills it at import.
Environs == { {}, {<<"SOLSCAN_API_KEY", "">>}, {<<"SOLSCAN_API_KEY", "k3y">>} }

\* os.getenv(name, default)
getenv(env, name, default) ==
    IF \E e \in env : e[1] = name
    THEN (CHOOSE e \in env : e[1] = name)[2]
    ELSE default

\* ------------------------------------------------------ Python values

\* The values a JupiterQuoteRequest field can hold: str, int, bool, None.
PyStr(s)  == [t |-> "str",  s |-> s,    i |-> 0, b |-> FALSE]
PyInt(n)  == [t |-> "int",  s |-> <<>>, i |-> n, b |-> FALSE]
PyBool(x) == [t |-> "bool", s |-> <<>>, i |-> 0, b |-> x]
PyNone    == [t |-> "none", s |-> <<>>, i |-> 0, b |-> FALSE]

\* httpx's conversion of a query parameter value to text: True and False
\* become "true" and "false", None the empty string, anything else str(v).
primitive_value_to_str(v) ==
    CASE v.t = "bool" -> IF v.b THEN <<"true">> ELSE <<"false">>
      [] v.t = "none" -> <<>>
      [] v.t = "int"  -> IntToStr(v.i)
      [] v.t = "str"  -> v.s

\* ---------------------------------------------------------- the tools

SolscanTools == {"solscan_account_info", "solscan_token_info",
                 "solscan_token_holders", "solscan_transaction"}
JupiterTools == {"jupiter_tokens", "jupiter_price", "jupiter_quote"}
DexScreenerTools == {"dexscreener_token", "dexscreener_pair", "dexscreener_search"}
Tools == SolscanTools \cup JupiterTools \cup DexScreenerTools

\* Declared defaults of the optional parameters.
DefaultLimit == 10
DefaultOffset == 0
DefaultVsToken == <<"USDC">>
DefaultSlippageBps == 50

Given(kw, name) == name \in DOMAIN kw

\* The value a parameter has inside the function body: the caller's, or the
\* declared default when the caller left it out.
Arg(kw, name, default) == IF Given(kw, name) THEN kw[name] ELSE default

\* JupiterQuoteRequest(...).model_dump(): every field, in declaration order,
\* with the field's default where the caller gave none.
model_dump(kw) ==
    << <<"inputMint", kw.inputMint>>,
       <<"outputMint", kw.outputMint>>,
       <<"amount", kw.amount>>,
       <<"slippageBps", Arg(kw, "slippageBps", PyInt(DefaultSlippageBps))>>,
       <<"platformFeeBps", Arg(kw, "platformFeeBps", PyNone)>>,
       <<"onlyDirectRoutes", Arg(kw, "onlyDirectRoutes", PyBool(FALSE))>>,
       <<"asLegacyTransaction", Arg(kw, "asLegacyTransaction", PyBool(FALSE))>> >>

Https(host) == <<"https:", "/", "/", host>>

\* The URL strings of the Solscan tools.
SolscanUrl(kw) ==
    CASE kw.tool = "solscan_account_info" ->
           Https("public-api.solscan.io") \o <<"/", "account", "/">> \o kw.address
      [] kw.tool = "solscan_token_info" ->
           Https("public-api.solscan.io")
             \o <<"/", "token", "/", "meta", "?", "tokenAddress", "=">> \o kw.address
      [] kw.tool = "solscan_token_holders" ->
           Https("public-api.solscan.io")
             \o <<"/", "token", "/", "holders", "?", "tokenAddress", "=">> \o kw.address
             \o <<"&", "limit", "=">> \o IntToStr(Arg(kw, "limit", DefaultLimit))
             \o <<"&", "offset", "=">> \o IntToStr(Arg(kw, "offset", DefaultOffset))
      [] kw.tool = "solscan_transaction" ->
           Https("public-api.solscan.io") \o <<"/", "transaction", "/">> \o kw.signature

\* The URL strings of the Jupiter tools.
JupiterUrl(kw) ==
    CASE kw.tool = "jupiter_tokens" ->
           Https("token.jup.ag") \o <<"/", "all">>
      [] kw.tool = "jupiter_price" ->
           Https("price.jup.ag")
             \o <<"/", "v4", "/", "price", "?", "ids", "=">> \o Join(kw.ids, <<",">>)
             \o <<"&", "vsToken", "=">> \o Arg(kw, "vsToken", DefaultVsToken)
      [] kw.tool = "jupiter_quote" ->
           Https("quote-api.jup.ag") \o <<"/", "v6", "/", "quote">>

\* DexScreenerUrl with the pair lookup sent to the token endpoint.
DexScreenerUrlPairAsToken(kw) ==
    CASE kw.tool = "dexscreener_token" ->
           Https("api.dexscreener.com")
             \o <<"/", "latest", "/", "dex", "/", "tokens", "/">> \o kw.tokenAddress
      [] kw.tool = "dexscreener_pair" ->
           Https("api.dexscreener.com")
             \o <<"/", "latest", "/", "dex", "/", "tokens", "/">> \o kw.pairAddress
      [] kw.tool = "dexscreener_search" ->
           Https("api.dexscreener.com")
             \o <<"/", "latest", "/", "dex", "/", "search", "?", "q", "=">> \o kw.query

\* The URL strings of the DEX Screener tools.
DexScreenerUrl(kw) ==
    CASE kw.tool = "dexscreener_token" ->
           Https("api.dexscreener.com")
             \o <<"/", "latest", "/", "dex", "/", "tokens", "/">> \o kw.tokenAddress
      [] kw.tool = "dexscreener_pair" ->
           Https("api.dexscreener.com")
             \o <<"/", "latest", "/", "dex", "/", "pairs", "/", "solana", "/">>
             \o kw.pairAddress
      [] kw.tool = "dexscreener_search" ->
           Https("api.dexscreener.com")
             \o <<"/", "latest", "/", "dex", "/", "search", "?", "q", "=">> \o kw.query

\* The URL string each tool hands to client.get.
Url(kw) ==
    IF kw.tool \in SolscanTools THEN SolscanUrl(kw)
    ELSE IF kw.tool \in JupiterTools THEN JupiterUrl(kw)
    ELSE DexScreenerUrl(kw)

\* Params as model_dump(exclude_none=True) would give them.
ParamsExcludeNone(kw) ==
    IF kw.tool = "jupiter_quote"
    THEN LET d == SelectSeq(model_dump(kw), LAMBDA f : f[2].t # "none")
         IN  [i \in 1..Len(d) |-> <<d[i][1], primitive_value_to_str(d[i][2])>>]
    ELSE <<>>

\* The params= argument of client.get, as the client puts it on the wire:
\* only jupiter_quote passes one.
Params(kw) ==
    IF kw.tool = "jupiter_quote"
    THEN LET d == model_dump(kw)
         IN  [i \in 1..Len(d) |-> <<d[i][1], primitive_value_to_str(d[i][2])>>]
    ELSE <<>>

\* SolscanHeaders with "if api_key is not None" for "if api_key".
SolscanHeadersIfSet(env) ==
    {<<"accept", "application/json">>}
      \cup (IF \E e \in env : e[1] = "SOLSCAN_API_KEY"
            THEN {<<"token", getenv(env, "SOLSCAN_API_KEY", "")>>} ELSE {})

\* The headers dict of the Solscan tools: accept always, token when the key
\* read from the environment is truthy.
SolscanHeaders(env) ==
    LET api_key == getenv(env, "SOLSCAN_API_KEY", "")
    IN  {<<"accept", "application/json">>}
          \cup (IF api_key # "" THEN {<<"token", api_key>>} ELSE {})

\* The headers= argument of client.get; the other six tools pass none.
Headers(tool, env) == IF tool \in SolscanTools THEN SolscanHeaders(env) ELSE {}

\* ------------------------------------------------------- the response

\* A response body as received: a sequence of JSON tokens (or of anything).
BodyObject == <<"{", "pairs", ":", "1", ",", "schemaVersion", ":", "2", "}">>
BodyArray  == <<"[", "4", ",", "2", "]">>
BodyHtml   == <<"<html>">>
BodyEmpty  == <<>>

Bodies == {BodyObject, BodyArray, BodyHtml, BodyEmpty}
Statuses == {200, 201, 302, 404, 503}

DigitTokens == {"0", "1", "2", "3", "4", "5", "6", "7", "8", "9"}
Punctuation == {"{", "}", "[", "]", ",", ":"}

DigitValue(tok) == CHOOSE d \in 0..9 : Digit(d) = tok

\* A key of a JSON object: a word that is neither a number nor punctuation.
IsKey(tok) == tok \notin DigitTokens \cup Punctuation \cup {"<html>"}

\* The decoded values: an int, a list of ints, a dict from keys to ints (kept
\* as the sequence of its items, in insertion order), or nothing.
JInt(n)      == [kind |-> "int",  val |-> n]
JList(items) == [kind |-> "list", val |-> items]
JDict(items) == [kind |-> "dict", val |-> items]
NoValue      == [kind |-> "none", val |-> <<>>]

\* d[k] = v on the items of a dict: a key already there keeps its place and
\* takes the new value.
DictSet(items, k, v) ==
    IF \E i \in 1..Len(items) : items[i][1] = k
    THEN [i \in 1..Len(items) |-> IF items[i][1] = k THEN <<k, v>> ELSE items[i]]
    ELSE Append(items, <<k, v>>)

RECURSIVE DictOf(_)
DictOf(members) ==
    IF members = <<>> THEN <<>>
    ELSE LET m == members[Len(members)]
         IN  DictSet(DictOf(SubSeq(members, 1, Len(members) - 1)), m[1], DigitValue(m[3]))

IsMember(m) == Len(m) = 3 /\ IsKey(m[1]) /\ m[2] = ":" /\ m[3] \in DigitTokens
IsElement(e) == Len(e) = 1 /\ e[1] \in DigitTokens

\* response.json(): the decoded body, or a JSONDecodeError (ok = FALSE).
JsonLoads(body) ==
    LET n == Len(body)
        inner == SubSeq(body, 2, n - 1)
        parts == IF inner = <<>> THEN <<>> ELSE Split(inner, ",")
    IN  IF n = 1 /\ body[1] \in DigitTokens
        THEN [ok |-> TRUE, val |-> JInt(DigitValue(body[1]))]
        ELSE IF n >= 2 /\ body[1] = "[" /\ body[n] = "]"
                 /\ \A i \in 1..Len(parts) : IsElement(parts[i])
        THEN [ok |-> TRUE,
              val |-> JList([i \in 1..Len(parts) |-> DigitValue(parts[i][1])])]
        ELSE IF n >= 2 /\ body[1] = "{" /\ body[n] = "}"
                 /\ \A i \in 1..Len(parts) : IsMember(parts[i])
        THEN [ok |-> TRUE, val |-> JDict(DictOf(parts))]
        ELSE [ok |-> FALSE, val |-> NoValue]

\* response.is_success: a status of the 2xx range.
is_success(status) == 200 <= status /\ status <= 299

NoResponse == [status |-> 0, body |-> <<>>]
NoRequest == [url |-> <<>>, headers |-> {}, params |-> <<>>]
NoCall == [tool |-> "none"]

\* ------------------------------------------------------------ the inputs

Alphabet == {"a", "/", "?", "&", "#"}

\* Every text of at most MaxLen characters.
Texts == UNION {[1..n -> Alphabet] : n \in 0..MaxLen}

ShortTexts == {<<>>} \cup {<<ch>> : ch \in Alphabet}
IdLists == UNION {[1..n -> ShortTexts] : n \in 0..MaxIds}
IntArgs == {-1, 3, 25}

\* An optional keyword argument: left out, or given one of vals.
Opt(name, vals) == {<<>>} \cup {name :> v : v \in vals}

OptBools == {PyBool(TRUE), PyBool(FALSE), PyNone}

\* The tool calls a client can make: a tool and its keyword arguments.
Inputs ==
    {[tool |-> "solscan_account_info", address |-> a] : a \in Texts}
    \cup {[tool |-> "solscan_token_info", address |-> a] : a \in Texts}
    \cup {[tool |-> "solscan_token_holders", address |-> a] @@ l @@ o :
            a \in Texts, l \in Opt("limit", IntArgs), o \in Opt("offset", IntArgs)}
    \cup {[tool |-> "solscan_transaction", signature |-> a] : a \in Texts}
    \cup {[tool |-> "jupiter_tokens"]}
    \cup {[tool |-> "jupiter_price", ids |-> i] @@ v :
            i \in IdLists, v \in Opt("vsToken", ShortTexts)}
    \cup {[tool |-> "jupiter_quote", inputMint |-> PyStr(m),
           outputMint |-> PyStr(<<"b">>), amount |-> PyStr(<<"1">>)]
            @@ s @@ f @@ d @@ l :
            m \in {<<>>, <<"a">>, <<"#">>},
            s \in Opt("slippageBps", {PyInt(0), PyInt(100)}),
            f \in Opt("platformFeeBps", {PyInt(20), PyNone}),
            d \in Opt("onlyDirectRoutes", OptBools),
            l \in Opt("asLegacyTransaction", OptBools)}
    \cup {[tool |-> "dexscreener_token", tokenAddress |-> a] : a \in Texts}
    \cup {[tool |-> "dexscreener_pair", pairAddress |-> a] : a \in Texts}
    \cup {[tool |-> "dexscreener_search", query |-> a] : a \in Texts}

\* The calls and responses of the runs with several calls in flight.
ConcInputs ==
    {[tool |-> "solscan_account_info", address |-> <<"a">>],
     [tool |-> "dexscreener_search", query |-> <<"a">>]}
ConcStatuses == {200, 404}
ConcBodies == {BodyObject, BodyHtml}

\* ------------------------------------------------------------ the state

\* environ  os.environ (SOLSCAN_API_KEY)
\* pc       where each call is: "idle", "entered" (inside async with),
\*          "awaiting" (client.get issued), "responded", "checked",
\*          "returning" / "raising" (leaving the with block),
\*          "returned" / "raised" (the caller has the outcome)
\* call     the tool and keyword arguments of each call
\* headers  the local headers dict
\* clients  every AsyncClient ever constructed: "open" or "closed"
\* client   the client each call holds (an index of clients, 0 for none)
\* request  what each call handed to client.get
\* sent     how many GETs each call has issued
\* response the response each call received
\* retval   the value each call returns
\* exc      the exception each call raises ("" for none)

Init ==
    /\ environ \in Environs
    /\ pc = [c \in AllCalls |-> "idle"]
    /\ call = [c \in AllCalls |-> NoCall]
    /\ headers = [c \in AllCalls |-> {}]
    /\ clients = <<>>
    /\ client = [c \in AllCalls |-> 0]
    /\ request = [c \in AllCalls |-> NoRequest]
    /\ sent = [c \in AllCalls |-> 0]
    /\ response = [c \in AllCalls |-> NoResponse]
    /\ retval = [c \in AllCalls |-> NoValue]
    /\ exc = [c \in AllCalls |-> ""]

\* A tool is called: the Solscan tools read the key and build their headers;
\* every tool constructs an AsyncClient and enters its context.
Call(c, inputs) ==
    /\ pc[c] = "idle"
    /\ \E kw \in inputs :
         /\ call' = [call EXCEPT ![c] = kw]
         /\ headers' = [headers EXCEPT ![c] = Headers(kw.tool, environ)]
    /\ clients' = Append(clients, "open")
    /\ client' = [client EXCEPT ![c] = Len(clients) + 1]
    /\ pc' = [pc EXCEPT ![c] = "entered"]
    /\ UNCHANGED <<environ, request, sent, response, retval, exc>>

\* await client.get(url, headers=..., params=...): the request goes out.
Get(c) ==
    /\ pc[c] = "entered"
    /\ request' = [request EXCEPT ![c] =
                     [url |-> Url(call[c]), headers |-> headers[c],
                      params |-> Params(call[c])]]
    /\ sent' = [sent EXCEPT ![c] = @ + 1]
    /\ pc' = [pc EXCEPT ![c] = "awaiting"]
    /\ UNCHANGED <<environ, call, headers, clients, client, response, retval, exc>>

\* The await completes with the upstream's response.
Respond(c, statuses, bodies) ==
    /\ pc[c] = "awaiting"
    /\ \E st \in statuses, b \in bodies :
         response' = [response EXCEPT ![c] = [status |-> st, body |-> b]]
    /\ pc' = [pc EXCEPT ![c] = "responded"]
    /\ UNCHANGED <<environ, call, headers, clients, client, request, sent, retval, exc>>

\* TransportError with the request tried again.
TransportErrorRetried(c) ==
    /\ pc[c] = "awaiting"
    /\ pc' = [pc EXCEPT ![c] = "entered"]
    /\ UNCHANGED <<environ, call, headers, clients, client, request, sent,
                   response, retval, exc>>

\* The await raises instead: no response came (connect failure, timeout, ...).
TransportError(c) ==
    /\ pc[c] = "awaiting"
    /\ exc' = [exc EXCEPT ![c] = "RequestError"]
    /\ pc' = [pc EXCEPT ![c] = "raising"]
    /\ UNCHANGED <<environ, call, headers, clients, client, request, sent, response, retval>>

\* RaiseForStatus raising for the 4xx and 5xx statuses only.
RaiseForStatusErrorsOnly(c) ==
    /\ pc[c] = "responded"
    /\ IF response[c].status < 400
       THEN pc' = [pc EXCEPT ![c] = "checked"] /\ exc' = exc
       ELSE pc' = [pc EXCEPT ![c] = "raising"]
            /\ exc' = [exc EXCEPT ![c] = "HTTPStatusError"]
    /\ UNCHANGED <<environ, call, headers, clients, client, request, sent, response, retval>>

\* response.raise_for_status()
RaiseForStatus(c) ==
    /\ pc[c] = "responded"
    /\ IF is_success(response[c].status)
       THEN pc' = [pc EXCEPT ![c] = "checked"] /\ exc' = exc
       ELSE pc' = [pc EXCEPT ![c] = "raising"]
            /\ exc' = [exc EXCEPT ![c] = "HTTPStatusError"]
    /\ UNCHANGED <<environ, call, headers, clients, client, request, sent, response, retval>>

\* The declared response model of a dict keeps its declared fields only.
Validated(v) ==
    IF v.kind = "dict"
    THEN JDict(SelectSeq(v.val, LAMBDA item : item[1] = "pairs"))
    ELSE v

\* Json with the decoded body passed through the declared response model.
JsonValidated(c) ==
    /\ pc[c] = "checked"
    /\ LET d == JsonLoads(response[c].body)
       IN  IF d.ok
           THEN /\ retval' = [retval EXCEPT ![c] = Validated(d.val)]
                /\ pc' = [pc EXCEPT ![c] = "returning"]
                /\ exc' = exc
           ELSE /\ exc' = [exc EXCEPT ![c] = "JSONDecodeError"]
                /\ pc' = [pc EXCEPT ![c] = "raising"]
                /\ retval' = retval
    /\ UNCHANGED <<environ, call, headers, clients, client, request, sent, response>>

\* Json with an undecodable body swallowed: the call returns nothing.
JsonLenient(c) ==
    /\ pc[c] = "checked"
    /\ LET d == JsonLoads(response[c].body)
       IN  retval' = [retval EXCEPT ![c] = d.val]
    /\ pc' = [pc EXCEPT ![c] = "returning"]
    /\ UNCHANGED <<environ, call, headers, clients, client, request, sent,
                   response, exc>>

\* return response.json()
Json(c) ==
    /\ pc[c] = "checked"
    /\ LET d == JsonLoads(response[c].body)
       IN  IF d.ok
           THEN /\ retval' = [retval EXCEPT ![c] = d.val]
                /\ pc' = [pc EXCEPT ![c] = "returning"]
                /\ exc' = exc
           ELSE /\ exc' = [exc EXCEPT ![c] = "JSONDecodeError"]
                /\ pc' = [pc EXCEPT ![c] = "raising"]
                /\ retval' = retval
    /\ UNCHANGED <<environ, call, headers, clients, client, request, sent, response>>

\* Exit with the client closed after a successful return only (no "async with").
ExitLeakOnError(c) ==
    /\ pc[c] \in {"returning", "raising"}
    /\ clients' = IF pc[c] = "returning"
                  THEN [clients EXCEPT ![client[c]] = "closed"]
                  ELSE clients
    /\ pc' = [pc EXCEPT ![c] = IF pc[c] = "returning" THEN "returned" ELSE "raised"]
    /\ UNCHANGED <<environ, call, headers, client, request, sent, response, retval, exc>>

\* Exit with one module-level client: closing it fails every call that is
\* still waiting on it.
ExitSharedClient(c) ==
    /\ pc[c] \in {"returning", "raising"}
    /\ clients' = [i \in 1..Len(clients) |-> "closed"]
    /\ pc' = [d \in AllCalls |->
                IF d = c THEN (IF pc[c] = "returning" THEN "returned" ELSE "raised")
                ELSE IF pc[d] = "awaiting" THEN "raising"
                ELSE pc[d]]
    /\ exc' = [d \in AllCalls |->
                IF d # c /\ pc[d] = "awaiting" THEN "RuntimeError" ELSE exc[d]]
    /\ UNCHANGED <<environ, call, headers, client, request, sent, response, retval>>

\* Leaving "async with": the client is closed, whether a value is being
\* returned or an exception is propagating, and the caller gets the outcome.
Exit(c) ==
    /\ pc[c] \in {"returning", "raising"}
    /\ clients' = [clients EXCEPT ![client[c]] = "closed"]
    /\ pc' = [pc EXCEPT ![c] = IF pc[c] = "returning" THEN "returned" ELSE "raised"]
    /\ UNCHANGED <<environ, call, headers, client, request, sent, response, retval, exc>>

Step(c, inputs, statuses, bodies) ==
    \/ Call(c, inputs)
    \/ Get(c)
    \/ Respond(c, statuses, bodies)
    \/ TransportError(c)
    \/ RaiseForStatus(c)
    \/ Json(c)
    \/ Exit(c)

\* One call at a time, over every input.
Next == Step(1, Inputs, Statuses, Bodies)

Spec == Init /\ [][Next]_vars

\* NCalls calls in flight together, interleaved at their awaits or finer.
NextConc == \E c \in AllCalls : Step(c, ConcInputs, ConcStatuses, ConcBodies)

SpecConc == Init /\ [][NextConc]_vars

\* ------------------------------------------------------------ the claims

Finished(c) == pc[c] \in {"returned", "raised"}
GotResponse(c) == response[c] # NoResponse
Status2xx(c) == response[c].status \div 100 = 2
HasRequest(c) == request[c] # NoRequest
KeySet == \E e \in environ : e[1] = "SOLSCAN_API_KEY" /\ e[2] # ""

RECURSIVE Concat(_)
\* The concatenation of a sequence of token sequences.
Concat(ss) == IF ss = <<>> THEN <<>> ELSE Head(ss) \o Concat(Tail(ss))

RECURSIVE CountOf(_, _)
CountOf(s, ch) ==
    IF s = <<>> THEN 0
    ELSE (IF Head(s) = ch THEN 1 ELSE 0) + CountOf(Tail(s), ch)

\* C1: a response whose status is outside the 2xx range never yields a value:
\* the call goes from the status check straight to raising HTTPStatusError,
\* the body is never decoded, and the call never ends "returned".
C1_NonSuccessIsError ==
    \A c \in AllCalls :
        (GotResponse(c) /\ ~Status2xx(c)) =>
            /\ pc[c] \in {"responded", "raising", "raised"}
            /\ retval[c] = NoValue
            /\ (pc[c] \in {"raising", "raised"} => exc[c] = "HTTPStatusError")

C1_Witness ==
    \E c \in AllCalls :
        /\ pc[c] = "raised"
        /\ response[c] = [status |-> 302, body |-> BodyObject]
        /\ exc[c] = "HTTPStatusError"

\* C2: a call that got a 2xx response with a JSON body ends "returned", and
\* the value it returns is the decoded body, every item of it in place: the
\* object {"pairs": 1, "schemaVersion": 2} comes back with both of its fields.
C2_Passthrough ==
    \A c \in AllCalls :
        /\ (pc[c] \in {"returning", "returned"}) =>
              /\ JsonLoads(response[c].body).ok
              /\ retval[c] = JsonLoads(response[c].body).val
              /\ (response[c].body = BodyObject =>
                    retval[c] = JDict(<< <<"pairs", 1>>, <<"schemaVersion", 2>> >>))
              /\ (response[c].body = BodyArray => retval[c] = JList(<<4, 2>>))
        /\ (Finished(c) /\ GotResponse(c) /\ Status2xx(c)
              /\ JsonLoads(response[c].body).ok) => pc[c] = "returned"

C2_Witness ==
    \E c \in AllCalls :
        /\ pc[c] = "returned"
        /\ call[c].tool = "dexscreener_search"
        /\ response[c] = [status |-> 201, body |-> BodyObject]
        /\ \E i \in 1..Len(retval[c].val) : retval[c].val[i][1] = "schemaVersion"

\* C3: a call has issued no GET before client.get and exactly one from then
\* on, whatever happens next: no state has a call with two requests sent, and
\* no call is past "entered" (finished ones included) without its request.
C3_ExactlyOneGet ==
    \A c \in AllCalls :
        /\ sent[c] <= 1
        /\ (pc[c] \in {"idle", "entered"} <=> sent[c] = 0)
        /\ (Finished(c) => sent[c] = 1 /\ HasRequest(c))

C3_Witness ==
    \E c \in AllCalls :
        pc[c] = "raised" /\ exc[c] = "RequestError" /\ sent[c] = 1

\* C4: the request of a Solscan tool carries accept: application/json, and a
\* token header exactly when SOLSCAN_API_KEY is set and not empty, with the
\* key as its value; the request of any other tool carries no token header.
C4_TokenHeader ==
    \A c \in AllCalls :
        HasRequest(c) =>
            LET h == request[c].headers
            IN  IF call[c].tool \in SolscanTools
                THEN /\ <<"accept", "application/json">> \in h
                     /\ (\E x \in h : x[1] = "token") <=> KeySet
                     /\ \A x \in h : x[1] = "token" => <<"SOLSCAN_API_KEY", x[2]>> \in environ
                ELSE \A x \in h : x[1] # "token"

C4_Witness ==
    \E c \in AllCalls :
        /\ pc[c] = "awaiting"
        /\ call[c].tool = "solscan_token_holders"
        /\ request[c].headers = {<<"accept", "application/json">>, <<"token", "k3y">>}

\* C5 as stated: a call ends in an error only on a non-2xx response, and every
\* call that received a 2xx response returns normally.
C5_OnlyStatusErrors ==
    \A c \in AllCalls :
        /\ pc[c] = "raised" => (GotResponse(c) /\ ~Status2xx(c))
        /\ (Finished(c) /\ GotResponse(c) /\ Status2xx(c)) => pc[c] = "returned"

\* C5 amended: a finished call ended in an error exactly when client.get raised
\* instead of returning a response (RequestError), or the response's status is
\* not 2xx (HTTPStatusError), or the 2xx response's body is not valid JSON
\* (JSONDecodeError); every call that received a 2xx response with a valid JSON
\* body returns normally.
C5_ErrorCauses ==
    \A c \in AllCalls :
        Finished(c) =>
            /\ pc[c] = "raised" <=>
                 \/ ~GotResponse(c)
                 \/ ~Status2xx(c)
                 \/ ~JsonLoads(response[c].body).ok
            /\ exc[c] = IF ~GotResponse(c) THEN "RequestError"
                        ELSE IF ~Status2xx(c) THEN "HTTPStatusError"
                        ELSE IF ~JsonLoads(response[c].body).ok THEN "JSONDecodeError"
                        ELSE ""

C5_Witness ==
    \E c \in AllCalls :
        /\ pc[c] = "raised"
        /\ exc[c] = "JSONDecodeError"
        /\ response[c] = [status |-> 200, body |-> BodyHtml]

\* What a call that runs alone sends, given its tool and arguments.
RequestAlone(kw) ==
    [url |-> IF kw.tool = "solscan_account_info"
             THEN <<"https:", "/", "/", "public-api.solscan.io", "/", "account", "/">>
                    \o kw.address
             ELSE <<"https:", "/", "/", "api.dexscreener.com", "/", "latest", "/",
                    "dex", "/", "search", "?", "q", "=">> \o kw.query,
     headers |-> IF kw.tool = "solscan_account_info"
                 THEN {<<"accept", "application/json">>}
                        \cup {<<"token", e[2]>> : e \in {x \in environ : x[2] # ""}}
                 ELSE {},
     params |-> <<>>]

\* What a call that runs alone ends with, given the response it received.
OutcomeAlone(resp) ==
    IF resp = NoResponse THEN <<"raised", NoValue, "RequestError">>
    ELSE IF resp.status \div 100 # 2 THEN <<"raised", NoValue, "HTTPStatusError">>
    ELSE IF resp.body = BodyObject
    THEN <<"returned", JDict(<< <<"pairs", 1>>, <<"schemaVersion", 2>> >>), "">>
    ELSE <<"raised", NoValue, "JSONDecodeError">>

C6_AsAlone ==
    \A c \in AllCalls :
        /\ HasRequest(c) => request[c] = RequestAlone(call[c])
        /\ Finished(c) => <<pc[c], retval[c], exc[c]>> = OutcomeAlone(response[c])

\* The part of the state that belongs to call d.
Own(d) == <<pc[d], call[d], headers[d], client[d], request[d], sent[d],
            response[d], retval[d], exc[d],
            IF client[d] = 0 THEN "none" ELSE clients[client[d]]>>

C6_Frame ==
    \A c, d \in AllCalls :
        (c # d /\ pc'[c] # pc[c]) => Own(d)' = Own(d)

\* C6: with several calls interleaved step by step, every call sends the
\* request and ends with the outcome it would have alone (both are functions
\* of its own arguments, the environment and its own response), and a step of
\* one call, a failing one included, leaves every other call's state as it was.
C6_Independent == []C6_AsAlone /\ [][C6_Frame]_vars

\* One call has failed while a call that started after it is still waiting
\* for its response, its client open.
C6_Witness ==
    \E c, d \in AllCalls :
        /\ c # d
        /\ pc[c] = "raised" /\ exc[c] = "HTTPStatusError"
        /\ pc[d] = "awaiting" /\ clients[client[d]] = "open"
        /\ client[c] < client[d]

Host(tool) ==
    CASE tool \in SolscanTools -> "public-api.solscan.io"
      [] tool = "jupiter_tokens" -> "token.jup.ag"
      [] tool = "jupiter_price" -> "price.jup.ag"
      [] tool = "jupiter_quote" -> "quote-api.jup.ag"
      [] tool \in DexScreenerTools -> "api.dexscreener.com"

\* The text after the host in each tool's template, the arguments in place.
Template(kw) ==
    CASE kw.tool = "solscan_account_info" -> <<"/", "account", "/">> \o kw.address
      [] kw.tool = "solscan_token_info" ->
           <<"/", "token", "/", "meta", "?", "tokenAddress", "=">> \o kw.address
      [] kw.tool = "solscan_token_holders" ->
           Concat(<< <<"/", "token", "/", "holders", "?", "tokenAddress", "=">>,
                     kw.address,
                     <<"&", "limit", "=">>,
                     IntToStr(IF "limit" \in DOMAIN kw THEN kw.limit ELSE 10),
                     <<"&", "offset", "=">>,
                     IntToStr(IF "offset" \in DOMAIN kw THEN kw.offset ELSE 0) >>)
      [] kw.tool = "solscan_transaction" -> <<"/", "transaction", "/">> \o kw.signature
      [] kw.tool = "jupiter_tokens" -> <<"/", "all">>
      [] kw.tool = "jupiter_price" ->
           Concat(<< <<"/", "v4", "/", "price", "?", "ids", "=">>,
                     Concat([i \in 1..Len(kw.ids) |->
                               IF i = 1 THEN kw.ids[i] ELSE <<",">> \o kw.ids[i]]),
                     <<"&", "vsToken", "=">>,
                     IF "vsToken" \in DOMAIN kw THEN kw.vsToken ELSE <<"USDC">> >>)
      [] kw.tool = "jupiter_quote" -> <<"/", "v6", "/", "quote">>
      [] kw.tool = "dexscreener_token" ->
           <<"/", "latest", "/", "dex", "/", "tokens", "/">> \o kw.tokenAddress
      [] kw.tool = "dexscreener_pair" ->
           <<"/", "latest", "/", "dex", "/", "pairs", "/", "solana", "/">> \o kw.pairAddress
      [] kw.tool = "dexscreener_search" ->
           <<"/", "latest", "/", "dex", "/", "search", "?", "q", "=">> \o kw.query

\* C7: the URL of every request is its tool's template with the arguments at
\* their places (the ids joined by "," in the order given), and the host the
\* client reads out of that URL is the host of the tool's own service,
\* whatever the arguments hold.
C7_UrlTemplates ==
    \A c \in AllCalls :
        HasRequest(c) =>
            /\ request[c].url =
                 <<"https:", "/", "/", Host(call[c].tool)>> \o Template(call[c])
            /\ UrlHost(request[c].url) = <<Host(call[c].tool)>>

C7_Witness ==
    \E c \in AllCalls :
        /\ pc[c] = "awaiting"
        /\ call[c].tool = "dexscreener_pair"
        /\ call[c].pairAddress = <<"a", "/">>
        /\ UrlHost(request[c].url) = <<"api.dexscreener.com">>
        /\ UrlPath(request[c].url) =
             <<"/", "latest", "/", "dex", "/", "pairs", "/", "solana", "/", "a", "/">>

\* C8: a call past "idle" holds a client of its own, no two calls hold the
\* same one, the client is open while the call is inside the with block and
\* closed once the call has finished, returned or raised.
C8_ClientClosed ==
    \A c \in AllCalls :
        /\ pc[c] = "idle" <=> client[c] = 0
        /\ pc[c] # "idle" =>
              /\ client[c] \in 1..Len(clients)
              /\ \A d \in AllCalls \ {c} : client[d] # client[c]
              /\ clients[client[c]] = IF Finished(c) THEN "closed" ELSE "open"

C8_Witness ==
    \E c, d \in AllCalls :
        /\ pc[c] = "raised" /\ exc[c] = "JSONDecodeError"
        /\ clients[client[c]] = "closed"
        /\ pc[d] = "raised" /\ exc[d] = "RequestError"
        /\ clients[client[d]] = "closed"

\* The text the request carries for an optional parameter of a call.
Carried(kw, name, default) ==
    IF name \in DOMAIN kw THEN kw[name] ELSE default

HasPair(q, name, value) == \E i \in 1..Len(q) : q[i] = <<name, value>>
HasKey(q, name) == \E i \in 1..Len(q) : q[i][1] = <<name>>

\* C9 as stated: the query of every request holds every parameter of its
\* tool, an optional one with the caller's value or else its declared default
\* (limit=10, offset=0, vsToken=USDC, slippageBps=50, onlyDirectRoutes=false,
\* asLegacyTransaction=false).
C9_DefaultsSent ==
    \A c \in AllCalls :
        HasRequest(c) =>
            LET kw == call[c]
                q == QueryPairs(UrlQuery(request[c].url))
                p == request[c].params
            IN  CASE kw.tool = "solscan_token_holders" ->
                       /\ HasKey(q, "tokenAddress")
                       /\ HasPair(q, <<"limit">>, IntToStr(Carried(kw, "limit", 10)))
                       /\ HasPair(q, <<"offset">>, IntToStr(Carried(kw, "offset", 0)))
                  [] kw.tool = "jupiter_price" ->
                       /\ HasKey(q, "ids")
                       /\ HasPair(q, <<"vsToken">>, Carried(kw, "vsToken", <<"USDC">>))
                  [] kw.tool = "jupiter_quote" ->
                       /\ HasPair(p, "slippageBps",
                                  IntToStr(Carried(kw, "slippageBps", PyInt(50)).i))
                       /\ HasPair(p, "onlyDirectRoutes",
                                  primitive_value_to_str(
                                      Carried(kw, "onlyDirectRoutes", PyBool(FALSE))))
                       /\ HasPair(p, "asLegacyTransaction",
                                  primitive_value_to_str(
                                      Carried(kw, "asLegacyTransaction", PyBool(FALSE))))
                       /\ \A f \in {"inputMint", "outputMint", "amount", "platformFeeBps"} :
                              \E i \in 1..Len(p) : p[i][1] = f
                  [] OTHER -> TRUE

\* The tools that interpolate one text argument into the path, or into the
\* query, of their URL; that argument; and the number of template tokens
\* that precede it.
PathTools == {"solscan_account_info", "solscan_transaction",
              "dexscreener_token", "dexscreener_pair"}
QueryTools == {"solscan_token_info", "solscan_token_holders", "dexscreener_search"}

TextArg(kw) ==
    CASE kw.tool \in {"solscan_account_info", "solscan_token_info",
                      "solscan_token_holders"} -> kw.address
      [] kw.tool = "solscan_transaction" -> kw.signature
      [] kw.tool = "dexscreener_token" -> kw.tokenAddress
      [] kw.tool = "dexscreener_pair" -> kw.pairAddress
      [] kw.tool = "dexscreener_search" -> kw.query

Offset(tool) ==
    CASE tool \in {"solscan_account_info", "solscan_transaction"} -> 7
      [] tool \in {"dexscreener_pair", "dexscreener_search"} -> 13
      [] OTHER -> 11

\* The number of "/"-separated segments and of "&"-separated query items a
\* tool's URL has when its argument holds no separator.
PlainSegments(tool) ==
    CASE tool \in {"solscan_account_info", "solscan_transaction"} -> 2
      [] tool = "dexscreener_token" -> 4
      [] tool = "dexscreener_pair" -> 5
PlainItems(tool) == IF tool = "solscan_token_holders" THEN 3 ELSE 1

QuoteFields == <<"inputMint", "outputMint", "amount", "slippageBps",
                 "platformFeeBps", "onlyDirectRoutes", "asLegacyTransaction">>

\* C10: the text of an interpolated argument stands in the URL exactly as
\* given, at its place in the template, whatever it holds (the empty text
\* included: a call that has entered can always send); jupiter_price does the
\* same with each id and with vsToken.  In an argument with no "#": every "/"
\* of a path argument before a "?" is one more path segment, a "?" in a path
\* argument starts a query the template does not have, and every "&" of a
\* query argument is one more query item.  jupiter_quote sends the seven
\* fields of the JupiterQuoteRequest, in order, once each, platformFeeBps with
\* an empty value when the caller left it unset.
C10_Verbatim ==
    \A c \in AllCalls :
        /\ pc[c] = "entered" => ENABLED Get(c)
        /\ HasRequest(c) =>
            LET kw == call[c]
                u == request[c].url
            IN  /\ kw.tool \in PathTools \cup QueryTools =>
                      LET a == TextArg(kw)
                          k == Offset(kw.tool)
                      IN  /\ SubSeq(u, k + 1, k + Len(a)) = a
                          /\ kw.tool # "solscan_token_holders" => Len(u) = k + Len(a)
                          /\ (kw.tool \in PathTools /\ ~Contains(a, "#")) =>
                                 IF Contains(a, "?")
                                 THEN LET i == FirstIn(a, {"?"}, 1)
                                      IN  /\ UrlQuery(u) = SubSeq(a, i + 1, Len(a))
                                          /\ Len(PathSegments(UrlPath(u))) =
                                               PlainSegments(kw.tool)
                                                 + CountOf(SubSeq(a, 1, i - 1), "/")
                                 ELSE /\ UrlQuery(u) = <<>>
                                      /\ Len(PathSegments(UrlPath(u))) =
                                           PlainSegments(kw.tool) + CountOf(a, "/")
                          /\ (kw.tool \in QueryTools /\ ~Contains(a, "#")) =>
                                 Len(QueryPairs(UrlQuery(u))) =
                                     PlainItems(kw.tool) + CountOf(a, "&")
                /\ kw.tool = "jupiter_price" =>
                      LET v == IF "vsToken" \in DOMAIN kw THEN kw.vsToken ELSE <<"USDC">>
                          n == Len(u)
                      IN  /\ SubSeq(u, n - Len(v) + 1, n) = v
                          /\ \A i \in 1..Len(kw.ids) :
                                \E j \in 11..n : SubSeq(u, j + 1, j + Len(kw.ids[i])) = kw.ids[i]
                          /\ Len(u) = 11 + Len(Concat(kw.ids))
                                         + (IF Len(kw.ids) > 1 THEN Len(kw.ids) - 1 ELSE 0)
                                         + 3 + Len(v)
                /\ kw.tool = "jupiter_quote" =>
                      LET p == request[c].params
                      IN  /\ [i \in 1..Len(p) |-> p[i][1]] = QuoteFields
                          /\ ("platformFeeBps" \notin DOMAIN kw => p[5][2] = <<>>)
                          /\ p[1][2] = kw.inputMint.s

\* A quote request that sets no platformFeeBps is on the wire with the field.
C10_Witness ==
    \E c \in AllCalls :
        /\ pc[c] = "awaiting"
        /\ call[c].tool = "jupiter_quote"
        /\ "platformFeeBps" \notin DOMAIN call[c]
        /\ call[c].inputMint.s = <<>>
        /\ request[c].params[5] = <<"platformFeeBps", <<>> >>

====
